---- MODULE Spec2Model ----
(***************************************************************************)
(* A model of the wasi-types crate (src/src/lib.rs): the Rights bitmask,   *)
(* the ErrNo enumeration and the host-error translation, the primitive     *)
(* enumerations, Event/Subscription values and Timestamp.                  *)
(*                                                                         *)
(* The crate is a library of value types and pure conversions.  The state  *)
(* machine is a caller that performs one operation of the crate at a time: *)
(* from "idle" it calls an operation (op names it, arg is its argument,    *)
(* res its result) and then drops the result and is idle again.            *)
(* overflow_checks is the build's integer-overflow setting (on in a debug  *)
(* build, off in a release build).                                         *)
(*                                                                         *)
(* A u64 is represented by the set of its one-bits: bit i (0..63) is in    *)
(* the set iff it is set in the integer.  The integers TLC computes with   *)
(* are 32 bits wide, so 64-bit values cannot be kept as numbers.           *)
(***************************************************************************)
EXTENDS Integers, Sequences, FiniteSets

VARIABLES op, arg, res, overflow_checks

vars == <<op, arg, res, overflow_checks>>

\* ------------------------------------------------------------------ bounds

\* The raw masks tried are all subsets of the bits 0..NumLowBits-1 together
\* with the bits around the end of the declared flags and the top bit.
NumLowBits == 2

\* The seconds tried are 0..MaxSmallSec and the values around the overflow.
MaxSmallSec == 3

\* The user data of the events and subscriptions tried is 0..MaxUserData.
MaxUserData == 1

\* The file sizes of the events tried are 0..MaxFileSize.
MaxFileSize == 1

\* ------------------------------------------------------------- Option/Result

None == [some |-> FALSE]

Some(v) == [some |-> TRUE, val |-> v]

Err == [ok |-> FALSE]

Ok(v) == [ok |-> TRUE, val |-> v]

\* Option::ok_or(()): Some(v) -> Ok(v), None -> Err(())
ok_or(o) == IF o.some THEN Ok(o.val) ELSE Err

\* ----------------------------------------------------------------- u64 bits

U64Width == 64

U64Bits == 0 .. (U64Width - 1)

Zero == {}

\* 1 << n
Shl1(n) == {n}

BitAnd(a, b) == a \cap b

BitOr(a, b) == a \cup b

BitNot(a) == U64Bits \ a

\* ------------------------------------------------------------------- Rights

FD_DATASYNC == Shl1(0)
FD_READ == Shl1(1)
FD_SEEK == Shl1(2)
FD_FDSTAT_SET_FLAGS == Shl1(3)
FD_SYNC == Shl1(4)
FD_TELL == Shl1(5)
FD_WRITE == Shl1(6)
FD_ADVISE == Shl1(7)
FD_ALLOCATE == Shl1(8)
PATH_CREATE_DIRECTORY == Shl1(9)
PATH_CREATE_FILE == Shl1(10)
PATH_LINK_SOURCE == Shl1(11)
PATH_LINK_TARGET == Shl1(12)
PATH_OPEN == Shl1(13)
FD_READDIR == Shl1(14)
PATH_READLINK == Shl1(15)
PATH_RENAME_SOURCE == Shl1(16)
PATH_RENAME_TARGET == Shl1(17)
PATH_FILESTAT_GET == Shl1(18)
PATH_FILESTAT_SET_SIZE == Shl1(19)
PATH_FILESTAT_SET_TIMES == Shl1(20)
FD_FILESTAT_GET == Shl1(21)
FD_FILESTAT_SET_SIZE == Shl1(22)
FD_FILESTAT_SET_TIMES == Shl1(23)
PATH_SYMLINK == Shl1(24)
PATH_REMOVE_DIRECTORY == Shl1(25)
PATH_UNLINK_FILE == Shl1(26)
POLL_FD_READWRITE == Shl1(27)
SOCK_SHUTDOWN == Shl1(28)

\* The flags the bitflags! block of Rights declares.
RightsFlags ==
    { FD_DATASYNC, FD_READ, FD_SEEK, FD_FDSTAT_SET_FLAGS, FD_SYNC, FD_TELL,
      FD_WRITE, FD_ADVISE, FD_ALLOCATE, PATH_CREATE_DIRECTORY,
      PATH_CREATE_FILE, PATH_LINK_SOURCE, PATH_LINK_TARGET, PATH_OPEN,
      FD_READDIR, PATH_READLINK, PATH_RENAME_SOURCE, PATH_RENAME_TARGET,
      PATH_FILESTAT_GET, PATH_FILESTAT_SET_SIZE, PATH_FILESTAT_SET_TIMES,
      FD_FILESTAT_GET, FD_FILESTAT_SET_SIZE, FD_FILESTAT_SET_TIMES,
      PATH_SYMLINK, PATH_REMOVE_DIRECTORY, PATH_UNLINK_FILE,
      POLL_FD_READWRITE, SOCK_SHUTDOWN }

\* A Rights value: struct Rights { bits: u64 }
MkRights(bits) == [bits |-> bits]

\* Rights::empty()
Rights_empty == MkRights(Zero)

\* Rights::all(): the union of every declared flag
Rights_all == MkRights(UNION RightsFlags)

\* (mutant) a decoder that accepts any mask
Rights_from_bits_unchecked(bits) == Some(MkRights(bits))

\* Rights::from_bits(bits): None if a bit outside all() is set
Rights_from_bits(bits) ==
    IF BitAnd(bits, BitNot(Rights_all.bits)) = Zero
    THEN Some(MkRights(bits))
    ELSE None

\* impl TryFrom<u64> for Rights
Rights_try_from(code) == ok_or(Rights_from_bits(code))

\* (mutant) an encoder that drops the last declared flag
u64_from_Rights_lossy(rights) == rights.bits \ SOCK_SHUTDOWN

\* impl From<Rights> for u64
u64_from_Rights(rights) == rights.bits

\* (mutant) exclusive or in place of or
Rights_union_xor(a, b) == MkRights((a.bits \ b.bits) \cup (b.bits \ a.bits))

\* a | b, Rights::union
Rights_union(a, b) == MkRights(BitOr(a.bits, b.bits))

\* a & b, Rights::intersection
Rights_intersection(a, b) == MkRights(BitAnd(a.bits, b.bits))

\* (mutant) the comparison against the wrong operand
Rights_contains_swapped(a, b) == BitAnd(a.bits, b.bits) = a.bits

\* Rights::contains: every bit of other is set in self
Rights_contains(a, b) == BitAnd(a.bits, b.bits) = b.bits

\* -------------------------------------------------------------------- ErrNo

\* enum ErrNo, in declaration order
ErrNoVariants ==
    << "Success", "TooBig", "Access", "AddrInUse", "AddrNotAvail",
       "AfNoSupport", "Again", "Already", "BadF", "BadMsg", "Busy",
       "Canceled", "Child", "ConnAborted", "ConnRefused", "ConnReset",
       "Deadlk", "DestAddrReq", "Domain", "DQuot", "Exist", "Fault", "FBig",
       "HostUnreach", "IdRm", "IlSeq", "InProgress", "Intr", "Inval", "Io",
       "IsConn", "IsDir", "Loop", "MFile", "MLink", "MsgSize", "Multihop",
       "NameTooLong", "NetDown", "NetReset", "NetUnreach", "NFile", "NoBufS",
       "NoDev", "NoEnt", "NoExec", "NoLock", "NoLink", "NoMem", "NoMsg",
       "NoProtoOpt", "NoSpace", "NoSys", "NotConn", "NotDir", "NotEmpty",
       "NotRecoverable", "NotSock", "NotSup", "NoTty", "NxIo", "Overflow",
       "OwnerDead", "Perm", "Pipe", "Proto", "ProtoNoSupport", "ProtoType",
       "Range", "RoFs", "SPipe", "Srch", "Stale", "TimedOut", "TxtBsy",
       "XDev", "NotCapable" >>

ErrNo == { ErrNoVariants[i] : i \in 1 .. Len(ErrNoVariants) }

\* The discriminant of variant v of a fieldless enum without explicit
\* discriminants: its zero-based position in the declaration.
Discriminant(variants, v) ==
    (CHOOSE i \in 1 .. Len(variants) : variants[i] = v) - 1

\* (mutant) discriminants counted from one
u16_from_ErrNo_one_based(errno) == Discriminant(ErrNoVariants, errno) + 1

\* impl From<ErrNo> for u16: errno as u16
u16_from_ErrNo(errno) == Discriminant(ErrNoVariants, errno) % (2 ^ 16)

\* std::io::ErrorKind: the kinds the match names, and two kinds it does not
\* name (the enum is non-exhaustive; they stand for every other kind).
ErrorKind ==
    { "NotFound", "PermissionDenied", "ConnectionRefused", "ConnectionReset",
      "ConnectionAborted", "NotConnected", "AddrInUse", "AddrNotAvailable",
      "BrokenPipe", "AlreadyExists", "WouldBlock", "InvalidInput",
      "InvalidData", "TimedOut", "WriteZero", "Interrupted", "Other",
      "UnexpectedEof", "Unsupported", "OutOfMemory" }

\* (mutant) a permission failure of the host reported as a missing capability
ErrNo_from_io_error_mut(kind) ==
    CASE kind = "NotFound" -> "NoEnt"
      [] kind = "PermissionDenied" -> "NotCapable"
      [] kind = "ConnectionRefused" -> "ConnRefused"
      [] kind = "ConnectionReset" -> "ConnReset"
      [] kind = "ConnectionAborted" -> "ConnAborted"
      [] kind = "NotConnected" -> "NotConn"
      [] kind = "AddrInUse" -> "AddrInUse"
      [] kind = "AddrNotAvailable" -> "AddrNotAvail"
      [] kind = "BrokenPipe" -> "Pipe"
      [] kind = "AlreadyExists" -> "Exist"
      [] kind = "WouldBlock" -> "Again"
      [] kind \in {"InvalidInput", "InvalidData"} -> "Inval"
      [] kind = "TimedOut" -> "TimedOut"
      [] kind = "Interrupted" -> "Intr"
      [] OTHER -> "Io"

\* (mutant) a translation whose catch-all arm reports no error
ErrNo_from_io_error_default_success(kind) ==
    CASE kind = "NotFound" -> "NoEnt"
      [] kind = "PermissionDenied" -> "Access"
      [] kind = "ConnectionRefused" -> "ConnRefused"
      [] kind = "ConnectionReset" -> "ConnReset"
      [] kind = "ConnectionAborted" -> "ConnAborted"
      [] kind = "NotConnected" -> "NotConn"
      [] kind = "AddrInUse" -> "AddrInUse"
      [] kind = "AddrNotAvailable" -> "AddrNotAvail"
      [] kind = "BrokenPipe" -> "Pipe"
      [] kind = "AlreadyExists" -> "Exist"
      [] kind = "WouldBlock" -> "Again"
      [] kind \in {"InvalidInput", "InvalidData"} -> "Inval"
      [] kind = "TimedOut" -> "TimedOut"
      [] kind = "Interrupted" -> "Intr"
      [] OTHER -> "Success"

\* impl From<std::io::Error> for ErrNo: match err.kind()
ErrNo_from_io_error(kind) ==
    CASE kind = "NotFound" -> "NoEnt"
      [] kind = "PermissionDenied" -> "Access"
      [] kind = "ConnectionRefused" -> "ConnRefused"
      [] kind = "ConnectionReset" -> "ConnReset"
      [] kind = "ConnectionAborted" -> "ConnAborted"
      [] kind = "NotConnected" -> "NotConn"
      [] kind = "AddrInUse" -> "AddrInUse"
      [] kind = "AddrNotAvailable" -> "AddrNotAvail"
      [] kind = "BrokenPipe" -> "Pipe"
      [] kind = "AlreadyExists" -> "Exist"
      [] kind = "WouldBlock" -> "Again"
      [] kind \in {"InvalidInput", "InvalidData"} -> "Inval"
      [] kind = "TimedOut" -> "TimedOut"
      [] kind = "Interrupted" -> "Intr"
      [] OTHER -> "Io"

\* ------------------------------------------------------------- enumerations

\* enum Advice
AdviceVariants ==
    << "Normal", "Sequential", "Random", "DontNeed", "NoReuse", "WillNeed" >>

\* enum ClockId
ClockIdVariants ==
    << "RealTime", "Monotonic", "ProcessCpuTime", "ThreadCpuTime" >>

\* enum EventType
EventTypeVariants == << "Clock", "FdRead", "FdWrite" >>

\* (mutant) a ninth file type
FileTypeVariants_extended ==
    << "Unknown", "BlockDevice", "CharacterDevice", "Directory",
       "RegularFile", "SocketDgram", "SocketStream", "SymbolicLink",
       "Fifo" >>

\* enum FileType
FileTypeVariants ==
    << "Unknown", "BlockDevice", "CharacterDevice", "Directory",
       "RegularFile", "SocketDgram", "SocketStream", "SymbolicLink" >>

\* enum Whence
WhenceVariants == << "Start", "Current", "End" >>

\* enum EventRwFlags
EventRwFlagsVariants == << "None", "Hangup" >>

\* The enums decoded from a raw integer, by name.
EnumVariants(enum) ==
    CASE enum = "Advice" -> AdviceVariants
      [] enum = "ClockId" -> ClockIdVariants
      [] enum = "EventType" -> EventTypeVariants
      [] enum = "FileType" -> FileTypeVariants
      [] enum = "Whence" -> WhenceVariants
      [] enum = "ErrNo" -> ErrNoVariants

EnumNames == {"Advice", "ClockId", "EventType", "FileType", "Whence", "ErrNo"}

\* (mutant) discriminants counted from one
Enum_to_raw_one_based(enum, v) == Discriminant(EnumVariants(enum), v) + 1

\* impl From<Advice> for u8 and its like: variant as integer
Enum_to_raw(enum, v) == Discriminant(EnumVariants(enum), v)

\* The fallible decode derive(Prim) gives each enum (TryFrom of the raw
\* integer type): the variant whose discriminant is raw, or an error.
Enum_try_from(enum, raw) ==
    IF raw < Len(EnumVariants(enum))
    THEN Ok(EnumVariants(enum)[raw + 1])
    ELSE Err

\* -------------------------------------------------------------------- Event

\* struct EventFdState { file_size, flags }
MkEventFdState(file_size, flags) == [file_size |-> file_size, flags |-> flags]

\* struct Event { user_data, error, ty, fd_state }: every field is public, so
\* a caller builds an Event from any four field values.
MkEvent(user_data, error, ty, fd_state) ==
    [user_data |-> user_data, error |-> error, ty |-> ty, fd_state |-> fd_state]

\* enum SubscriptionUnion { Clock(..), FdRead(..), FdWrite(..) } in
\* struct Subscription { userdata, u }
MkSubscription(userdata, tag, payload) ==
    [userdata |-> userdata, u |-> [tag |-> tag, payload |-> payload]]

\* ---------------------------------------------------------------- Timestamp

\* The multiplier of from_sec.
NanosPerSec == 1000000000

\* Products of two u64 are computed in twice the width.
WideBits == 0 .. (2 * U64Width - 1)

Bit(x, i) == IF i \in x THEN 1 ELSE 0

\* The bits of a natural number below 2^31.
U64FromNat(n) == { i \in 0 .. 30 : (n \div (2 ^ i)) % 2 = 1 }

\* x << n, nothing dropped
ShiftLeft(x, n) == { i + n : i \in x }

\* The carry into bit i of a + b: some lower bit j generates a carry (both
\* operands have it) and every bit between j and i propagates it (at least
\* one operand has it).
Carry(a, b, i) ==
    IF \E j \in 0 .. (i - 1) :
           /\ j \in a
           /\ j \in b
           /\ \A k \in (j + 1) .. (i - 1) : k \in a \/ k \in b
    THEN 1
    ELSE 0

\* Binary addition, nothing dropped below 2^128.
WideAdd(a, b) ==
    { i \in WideBits : (Bit(a, i) + Bit(b, i) + Carry(a, b, i)) % 2 = 1 }

\* The sum of a << i over the bit positions i in S, adding the sum over the
\* lower half of the positions to the sum over the upper half.
RECURSIVE SumShifts(_, _)
SumShifts(a, S) ==
    IF S = {}
    THEN {}
    ELSE LET lo == CHOOSE i \in S : \A j \in S : i <= j
             hi == CHOOSE i \in S : \A j \in S : j <= i
             mid == (lo + hi + 1) \div 2
         IN  IF lo = hi
             THEN ShiftLeft(a, lo)
             ELSE WideAdd(SumShifts(a, { i \in S : i < mid }),
                          SumShifts(a, { i \in S : i >= mid }))

\* The mathematical product of two u64.
WideMul(a, b) == SumShifts(a, b)

\* The low 64 bits: what a wrapping operation keeps.
Wrap64(x) == x \cap U64Bits

\* struct Timestamp(u64)
MkTimestamp(nanos) == [nanos |-> nanos]

\* Timestamp::from_nanos
Timestamp_from_nanos(nanos) == MkTimestamp(nanos)

\* Timestamp::as_nanos
Timestamp_as_nanos(t) == t.nanos

\* The outcome of a call that may panic.
Panicked == [panicked |-> TRUE]

Returned(v) == [panicked |-> FALSE, val |-> v]

\* (mutant) seconds taken for milliseconds
Timestamp_from_sec_millis(sec, checks) ==
    Returned(Timestamp_from_nanos(Wrap64(WideMul(sec, U64FromNat(1000000)))))

\* (mutant) a multiplication that wraps in every build
Timestamp_from_sec_wrapping(sec, checks) ==
    Returned(Timestamp_from_nanos(Wrap64(WideMul(sec, U64FromNat(NanosPerSec)))))

\* Timestamp::from_sec: sec * 1_000_000_000 in u64 arithmetic.  A product
\* that does not fit panics when the build checks overflow and wraps when it
\* does not.
Timestamp_from_sec(sec, checks) ==
    LET product == WideMul(sec, U64FromNat(NanosPerSec))
    IN  IF product \subseteq U64Bits
        THEN Returned(Timestamp_from_nanos(product))
        ELSE IF checks
             THEN Panicked
             ELSE Returned(Timestamp_from_nanos(Wrap64(product)))

\* ------------------------------------------------------------------- inputs

\* Bit positions the raw masks are built from: the low bits, the last two
\* declared flags (27, 28), the first undeclared bit (29) and the top bit.
SampleBitPositions == (0 .. (NumLowBits - 1)) \cup {27, 28, 29, 63}

RawMasks == SUBSET SampleBitPositions

\* The Rights values a caller can hold: those decoded from a raw mask.
RightsPool ==
    { Rights_from_bits(x).val : x \in { y \in RawMasks : Rights_from_bits(y).some } }

U64Max == U64Bits

\* The number whose bits are the four bits of x from bit b up.
Nibble(x, b) ==
    Bit(x, b) + 2 * Bit(x, b + 1) + 4 * Bit(x, b + 2) + 8 * Bit(x, b + 3)

\* The number whose bits are the sixteen bits of x from bit b up.
Limb(x, b) ==
    Nibble(x, b) + 16 * Nibble(x, b + 4) + 256 * Nibble(x, b + 8)
        + 4096 * Nibble(x, b + 12)

\* Long division of the u64 x by d (0 < d < 2^15), sixteen bits at a time
\* from the top: the quotient as a u64 and the remainder as a number.
DivModSmall(x, d) ==
    LET t3 == Limb(x, 48)
        t2 == (t3 % d) * 65536 + Limb(x, 32)
        t1 == (t2 % d) * 65536 + Limb(x, 16)
        t0 == (t1 % d) * 65536 + Limb(x, 0)
    IN  [q |-> ShiftLeft(U64FromNat(t3 \div d), 48)
                 \cup ShiftLeft(U64FromNat(t2 \div d), 32)
                 \cup ShiftLeft(U64FromNat(t1 \div d), 16)
                 \cup U64FromNat(t0 \div d),
         r |-> t0 % d]

\* Division of the u64 x by 1_000_000_000 = 1000 * 1000 * 1000, as three
\* divisions by 1000.
DivModNanos(x) ==
    LET k == CHOOSE d \in 1 .. 1290 : d * d * d = NanosPerSec
        a == DivModSmall(x, k)
        b == DivModSmall(a.q, k)
        c == DivModSmall(b.q, k)
    IN  [q |-> c.q, r |-> (c.r * k + b.r) * k + a.r]

\* a <= b as unsigned integers: they are equal or the highest bit in which
\* they differ is set in b.
LeqU64(a, b) ==
    LET diff == (a \ b) \cup (b \ a)
    IN  diff = {} \/ (CHOOSE i \in diff : \A j \in diff : j <= i) \in b

\* The largest number of seconds whose nanoseconds fit in a u64:
\* (2^64 - 1) div 1_000_000_000 = 18_446_744_073.
MaxFitSec == DivModNanos(U64Max).q

SecSamples ==
    { U64FromNat(k) : k \in 0 .. MaxSmallSec }
        \cup { MaxFitSec, Wrap64(WideAdd(MaxFitSec, U64FromNat(1))),
               Shl1(32), Shl1(34), Shl1(35), Shl1(63), U64Max }

NanosSamples == SecSamples \cup { U64FromNat(NanosPerSec), 0 .. 31, 0 .. 32 }

\* Raw integers handed to the decoders: every u8, and for the wider raw
\* types (u32 for ClockId, u16 for ErrNo) some values past a byte.
RawInts(enum) ==
    (0 .. (2 ^ 8 - 1))
        \cup (IF enum = "ClockId" THEN {2 ^ 8, 2 ^ 16, 2 ^ 30} ELSE {})
        \cup (IF enum = "ErrNo" THEN {2 ^ 8, 2 ^ 16 - 1} ELSE {})

EventFdStates ==
    { MkEventFdState(U64FromNat(n), f) :
        n \in 0 .. MaxFileSize,
        f \in { EventRwFlagsVariants[i] : i \in 1 .. Len(EventRwFlagsVariants) } }

EventTypes == { EventTypeVariants[i] : i \in 1 .. Len(EventTypeVariants) }

ClockIds == { ClockIdVariants[i] : i \in 1 .. Len(ClockIdVariants) }

UserDatas == { U64FromNat(n) : n \in 0 .. MaxUserData }

\* The payloads of a subscription of each tag.
SubscriptionPayloads(tag) ==
    IF tag = "Clock"
    THEN { [clock_id |-> c, timeout |-> Timestamp_from_nanos(t),
            precision |-> Timestamp_from_nanos(Zero), flags |-> 0] :
             c \in ClockIds, t \in { U64FromNat(n) : n \in 0 .. MaxSmallSec } }
    ELSE { [fd |-> n] : n \in 0 .. 2 }

\* ------------------------------------------------------------------ actions

Init ==
    /\ op = "idle"
    /\ arg = <<>>
    /\ res = <<>>
    /\ overflow_checks \in BOOLEAN

\* The caller drops the result.
Return ==
    /\ op # "idle"
    /\ op' = "idle"
    /\ arg' = <<>>
    /\ res' = <<>>
    /\ UNCHANGED overflow_checks

DoRightsFromBits ==
    \E x \in RawMasks :
        /\ op = "idle"
        /\ op' = "Rights::from_bits"
        /\ arg' = x
        /\ res' = Rights_from_bits(x)
        /\ UNCHANGED overflow_checks

DoRightsTryFrom ==
    \E x \in RawMasks :
        /\ op = "idle"
        /\ op' = "Rights::try_from"
        /\ arg' = x
        /\ res' = Rights_try_from(x)
        /\ UNCHANGED overflow_checks

\* Rights::from_bits(x).map(u64::from): decode, then encode what was decoded
DoRightsRoundTrip ==
    \E x \in RawMasks :
        /\ op = "idle"
        /\ op' = "Rights::from_bits.map(u64::from)"
        /\ arg' = x
        /\ res' = IF Rights_from_bits(x).some
                  THEN Some(u64_from_Rights(Rights_from_bits(x).val))
                  ELSE None
        /\ UNCHANGED overflow_checks

DoRightsUnion ==
    \E a \in RightsPool, b \in RightsPool :
        /\ op = "idle"
        /\ op' = "Rights::union"
        /\ arg' = <<a, b>>
        /\ res' = Rights_union(a, b)
        /\ UNCHANGED overflow_checks

DoRightsIntersection ==
    \E a \in RightsPool, b \in RightsPool :
        /\ op = "idle"
        /\ op' = "Rights::intersection"
        /\ arg' = <<a, b>>
        /\ res' = Rights_intersection(a, b)
        /\ UNCHANGED overflow_checks

DoRightsContains ==
    \E a \in RightsPool, b \in RightsPool :
        /\ op = "idle"
        /\ op' = "Rights::contains"
        /\ arg' = <<a, b>>
        /\ res' = Rights_contains(a, b)
        /\ UNCHANGED overflow_checks

DoErrNoToU16 ==
    \E e \in ErrNo :
        /\ op = "idle"
        /\ op' = "u16::from(ErrNo)"
        /\ arg' = e
        /\ res' = u16_from_ErrNo(e)
        /\ UNCHANGED overflow_checks

DoErrNoFromIoError ==
    \E kind \in ErrorKind :
        /\ op = "idle"
        /\ op' = "ErrNo::from(io::Error)"
        /\ arg' = kind
        /\ res' = ErrNo_from_io_error(kind)
        /\ UNCHANGED overflow_checks

DoEnumTryFrom ==
    \E enum \in EnumNames :
        \E raw \in RawInts(enum) :
            /\ op = "idle"
            /\ op' = "try_from"
            /\ arg' = <<enum, raw>>
            /\ res' = Enum_try_from(enum, raw)
            /\ UNCHANGED overflow_checks

\* encode a variant, then decode the raw integer
DoEnumToRaw ==
    \E enum \in EnumNames :
        \E i \in 1 .. Len(EnumVariants(enum)) :
            /\ op = "idle"
            /\ op' = "to_raw"
            /\ arg' = <<enum, EnumVariants(enum)[i]>>
            /\ res' = [raw |-> Enum_to_raw(enum, EnumVariants(enum)[i]),
                       back |-> Enum_try_from(enum,
                                    Enum_to_raw(enum, EnumVariants(enum)[i]))]
            /\ UNCHANGED overflow_checks

\* Event { user_data, error, ty, fd_state }: a struct literal
DoEventNew ==
    \E u \in UserDatas, e \in ErrNo, ty \in EventTypes,
       st \in {None} \cup { Some(f) : f \in EventFdStates } :
        /\ op = "idle"
        /\ op' = "Event"
        /\ arg' = <<u, e, ty, st>>
        /\ res' = MkEvent(u, e, ty, st)
        /\ UNCHANGED overflow_checks

\* Subscription { userdata, u }: a struct literal
DoSubscriptionNew ==
    \E u \in UserDatas, tag \in EventTypes :
        \E payload \in SubscriptionPayloads(tag) :
            /\ op = "idle"
            /\ op' = "Subscription"
            /\ arg' = <<u, tag, payload>>
            /\ res' = MkSubscription(u, tag, payload)
            /\ UNCHANGED overflow_checks

DoTimestampFromNanos ==
    \E n \in NanosSamples :
        /\ op = "idle"
        /\ op' = "Timestamp::from_nanos"
        /\ arg' = n
        /\ res' = Timestamp_from_nanos(n)
        /\ UNCHANGED overflow_checks

DoTimestampFromSec ==
    \E sec \in SecSamples :
        /\ op = "idle"
        /\ op' = "Timestamp::from_sec"
        /\ arg' = sec
        /\ res' = Timestamp_from_sec(sec, overflow_checks)
        /\ UNCHANGED overflow_checks

Next ==
    \/ DoRightsFromBits
    \/ DoRightsTryFrom
    \/ DoRightsRoundTrip
    \/ DoRightsUnion
    \/ DoRightsIntersection
    \/ DoRightsContains
    \/ DoErrNoToU16
    \/ DoErrNoFromIoError
    \/ DoEnumTryFrom
    \/ DoEnumToRaw
    \/ DoEventNew
    \/ DoSubscriptionNew
    \/ DoTimestampFromNanos
    \/ DoTimestampFromSec
    \/ Return

Spec == Init /\ [][Next]_vars

\* ------------------------------------------------------------------- claims

\* The decode of a raw mask was performed and refused the mask.
RightsDecodeRejected ==
    /\ op = "Rights::from_bits" => res = None
    /\ op = "Rights::try_from" => res = Err

RightsDecodePerformed == op \in {"Rights::from_bits", "Rights::try_from"}

\* C1 as stated: a raw mask with any bit at position 28 or above set is
\* rejected by Rights::from_bits (None) and by TryFrom<u64> (Err).
C1_Bit28AndAboveRejected ==
    (RightsDecodePerformed /\ \E i \in arg : i >= 28) => RightsDecodeRejected

\* C1 as amended: a raw mask with any bit at position 29 or above set is
\* rejected by Rights::from_bits (None) and by TryFrom<u64> (Err); bit 28 is
\* the declared flag SOCK_SHUTDOWN.
C1_Bit29AndAboveRejected ==
    (RightsDecodePerformed /\ \E i \in arg : i >= 29) => RightsDecodeRejected

\* C1 witness: a mask of declared flags and bit 29 was given to try_from and
\* refused.
C1_Witness ==
    /\ op = "Rights::try_from"
    /\ arg = {0, 28, 29}
    /\ res = Err

\* C2: a raw mask with no bit at position 28 or above decodes, and encoding
\* the decoded Rights gives the mask back; encoding any decoded Rights gives
\* back exactly the mask it was decoded from.
C2_RightsRoundTrip ==
    op = "Rights::from_bits.map(u64::from)" =>
        /\ (\A i \in arg : i < 28) => res = Some(arg)
        /\ res.some => res.val = arg

\* C2 witness: the mask with bits 0 and 27 went through decode and encode.
C2_Witness ==
    /\ op = "Rights::from_bits.map(u64::from)"
    /\ arg = {0, 27}
    /\ res = Some({0, 27})

\* The translation table of C3: the kinds it names, and Io for the rest.
C3_Table(kind) ==
    LET named ==
            { <<"NotFound", "NoEnt">>, <<"PermissionDenied", "Access">>,
              <<"ConnectionRefused", "ConnRefused">>,
              <<"ConnectionReset", "ConnReset">>,
              <<"ConnectionAborted", "ConnAborted">>,
              <<"NotConnected", "NotConn">>, <<"AddrInUse", "AddrInUse">>,
              <<"AddrNotAvailable", "AddrNotAvail">>, <<"BrokenPipe", "Pipe">>,
              <<"AlreadyExists", "Exist">>, <<"WouldBlock", "Again">>,
              <<"InvalidInput", "Inval">>, <<"InvalidData", "Inval">>,
              <<"TimedOut", "TimedOut">>, <<"Interrupted", "Intr">> }
    IN  IF \E p \in named : p[1] = kind
        THEN (CHOOSE p \in named : p[1] = kind)[2]
        ELSE "Io"

\* C3: the host-error translation returns, for every error kind, the one
\* ErrNo the table gives for it, and Io for every kind the table does not
\* name.
C3_HostErrorTable ==
    op = "ErrNo::from(io::Error)" =>
        /\ res \in ErrNo
        /\ res = C3_Table(arg)

\* C3 witness: a kind the match does not name was translated to Io.
C3_Witness ==
    /\ op = "ErrNo::from(io::Error)"
    /\ arg = "OutOfMemory"
    /\ res = "Io"

\* C4: the host-error translation never returns NotCapable.
C4_NeverNotCapable ==
    op = "ErrNo::from(io::Error)" => res # "NotCapable"

\* C4 witness: the host's permission failure was translated, to Access.
C4_Witness ==
    /\ op = "ErrNo::from(io::Error)"
    /\ arg = "PermissionDenied"
    /\ res = "Access"

\* C5: the u16 encodings of the ErrNo variants are pairwise distinct, Success
\* encodes to 0 and no other variant does.
C5_ErrNoEncoding ==
    op = "u16::from(ErrNo)" =>
        /\ arg = "Success" <=> res = 0
        /\ \A other \in ErrNo \ {arg} : u16_from_ErrNo(other) # res

\* C5 witness: the last variant was encoded, to 76.
C5_Witness ==
    /\ op = "u16::from(ErrNo)"
    /\ arg = "NotCapable"
    /\ res = 76

\* The number of variants C6 states for each enumeration.
C6_Range(enum) ==
    CASE enum = "FileType" -> 8
      [] enum = "Advice" -> 6
      [] enum = "Whence" -> 3
      [] enum = "EventType" -> 3
      [] enum = "ClockId" -> 4

\* C6: decoding a raw integer outside the variant range (FileType >= 8,
\* Advice >= 6, Whence >= 3, EventType >= 3, ClockId >= 4) returns the error
\* value, never a variant.
C6_OutOfRangeRejected ==
    (/\ op = "try_from"
     /\ arg[1] \in {"FileType", "Advice", "Whence", "EventType", "ClockId"}
     /\ arg[2] >= C6_Range(arg[1]))
        => res = Err

\* C6 witness: FileType was decoded from 8 and the decode failed.
C6_Witness ==
    /\ op = "try_from"
    /\ arg = <<"FileType", 8>>
    /\ res = Err

\* The subset test as C7 defines it: a implies b iff a & b == a.
C7_implies(a, b) == Rights_intersection(a, b) = a

\* C7: a implies a.union(b), a.intersection(b) implies a, and union and
\* intersection are commutative, idempotent and associative.
C7_LatticeLaws ==
    /\ op = "Rights::union" =>
        /\ C7_implies(arg[1], res)
        /\ res = Rights_union(arg[2], arg[1])
        /\ arg[1] = arg[2] => res = arg[1]
        /\ \A c \in RightsPool :
               Rights_union(res, c) = Rights_union(arg[1], Rights_union(arg[2], c))
    /\ op = "Rights::intersection" =>
        /\ C7_implies(res, arg[1])
        /\ res = Rights_intersection(arg[2], arg[1])
        /\ arg[1] = arg[2] => res = arg[1]
        /\ \A c \in RightsPool :
               Rights_intersection(res, c) =
                   Rights_intersection(arg[1], Rights_intersection(arg[2], c))

\* C7 witness: the union of two masks neither of which contains the other.
C7_Witness ==
    /\ op = "Rights::union"
    /\ arg = <<MkRights({0, 28}), MkRights({1})>>
    /\ res = MkRights({0, 1, 28})

C9_FdStateIffFdEvent ==
    op = "Event" => (res.fd_state.some <=> res.ty \in {"FdRead", "FdWrite"})

\* C10: from_sec(sec).as_nanos() is sec * 1_000_000_000 whenever the product
\* fits in 64 bits (sec <= MaxFitSec), from_sec(1).as_nanos() is
\* 1_000_000_000, and from_nanos(n).as_nanos() is n.
C10_TimestampConversions ==
    /\ (op = "Timestamp::from_sec" /\ LeqU64(arg, MaxFitSec)) =>
        /\ ~res.panicked
        /\ DivModNanos(Timestamp_as_nanos(res.val)) = [q |-> arg, r |-> 0]
        /\ arg = U64FromNat(1) =>
               Timestamp_as_nanos(res.val) = U64FromNat(1000000000)
    /\ op = "Timestamp::from_nanos" => Timestamp_as_nanos(res) = arg

\* C10 witness: from_sec was given the largest number of seconds that fits
\* and returned a Timestamp with more than 63 bits of nanoseconds.
C10_Witness ==
    /\ op = "Timestamp::from_sec"
    /\ arg = MaxFitSec
    /\ ~res.panicked
    /\ 63 \in Timestamp_as_nanos(res.val)

\* C11: encoding a variant of Advice, ClockId, EventType, FileType, Whence or
\* ErrNo gives its zero-based position in the declaration (SymbolicLink 7,
\* FdWrite 2, ThreadCpuTime 3, End 2), and decoding that integer gives the
\* variant back.
C11_EncodeIsPositionAndDecodes ==
    op = "to_raw" =>
        /\ res.raw \in 0 .. (Len(EnumVariants(arg[1])) - 1)
        /\ EnumVariants(arg[1])[res.raw + 1] = arg[2]
        /\ arg = <<"FileType", "SymbolicLink">> => res.raw = 7
        /\ arg = <<"EventType", "FdWrite">> => res.raw = 2
        /\ arg = <<"ClockId", "ThreadCpuTime">> => res.raw = 3
        /\ arg = <<"Whence", "End">> => res.raw = 2
        /\ arg = <<"ErrNo", "Success">> => res.raw = 0
        /\ res.back = Ok(arg[2])

\* C11 witness: FileType::SymbolicLink was encoded to 7 and decoded back.
C11_Witness ==
    /\ op = "to_raw"
    /\ arg = <<"FileType", "SymbolicLink">>
    /\ res = [raw |-> 7, back |-> Ok("SymbolicLink")]

\* C12: the host-error translation never returns Success: the u16 encoding
\* of what it returns is never 0.
C12_NeverSuccess ==
    op = "ErrNo::from(io::Error)" =>
        /\ res # "Success"
        /\ u16_from_ErrNo(res) # 0

\* C12 witness: the unclassified kind Other was translated, to Io, which
\* encodes to 29.
C12_Witness ==
    /\ op = "ErrNo::from(io::Error)"
    /\ arg = "Other"
    /\ res = "Io"
    /\ u16_from_ErrNo(res) = 29

\* The number whose bits are the eight bits of x from bit 8 * k up.
Byte(x, k) == Nibble(x, 8 * k) + 16 * Nibble(x, 8 * k + 4)

\* Schoolbook multiplication of the u64 x by m (0 < m <= 1000), a byte at a
\* time from the bottom, the carry out of the top byte dropped: x * m modulo
\* 2^64.
MulSmallWrap(x, m) ==
    LET t0 == Byte(x, 0) * m
        t1 == Byte(x, 1) * m + t0 \div 256
        t2 == Byte(x, 2) * m + t1 \div 256
        t3 == Byte(x, 3) * m + t2 \div 256
        t4 == Byte(x, 4) * m + t3 \div 256
        t5 == Byte(x, 5) * m + t4 \div 256
        t6 == Byte(x, 6) * m + t5 \div 256
        t7 == Byte(x, 7) * m + t6 \div 256
    IN  U64FromNat(t0 % 256)
            \cup ShiftLeft(U64FromNat(t1 % 256), 8)
            \cup ShiftLeft(U64FromNat(t2 % 256), 16)
            \cup ShiftLeft(U64FromNat(t3 % 256), 24)
            \cup ShiftLeft(U64FromNat(t4 % 256), 32)
            \cup ShiftLeft(U64FromNat(t5 % 256), 40)
            \cup ShiftLeft(U64FromNat(t6 % 256), 48)
            \cup ShiftLeft(U64FromNat(t7 % 256), 56)

\* x * 1_000_000_000 modulo 2^64, as x * 1000 * 1000 * 1000.
MulNanosWrap(x) == MulSmallWrap(MulSmallWrap(MulSmallWrap(x, 1000), 1000), 1000)

\* 18_446_744_073 = 18 * 1_000_000_000 + 446_744_073
C13_Threshold ==
    Wrap64(WideAdd(WideMul(U64FromNat(18), U64FromNat(1000000000)),
                   U64FromNat(446744073)))

\* C13: for sec > 18_446_744_073 the product sec * 1_000_000_000 does not fit
\* in a u64 and from_sec does not return it: the call panics when the build
\* checks overflow, and returns the product modulo 2^64 when it does not; for
\* sec <= 18_446_744_073 the call returns the exact product.
C13_FromSecOverflow ==
    op = "Timestamp::from_sec" =>
        /\ MaxFitSec = C13_Threshold
        /\ LeqU64(arg, C13_Threshold) =>
            /\ ~res.panicked
            /\ Timestamp_as_nanos(res.val) = MulNanosWrap(arg)
            /\ DivModNanos(Timestamp_as_nanos(res.val)) = [q |-> arg, r |-> 0]
        /\ (~LeqU64(arg, C13_Threshold) /\ overflow_checks) => res = Panicked
        /\ (~LeqU64(arg, C13_Threshold) /\ ~overflow_checks) =>
            /\ ~res.panicked
            /\ Timestamp_as_nanos(res.val) = MulNanosWrap(arg)
            /\ DivModNanos(Timestamp_as_nanos(res.val)) # [q |-> arg, r |-> 0]

\* C13 witness: without overflow checks, from_sec was given 18_446_744_074
\* and returned a wrapped Timestamp.
C13_Witness ==
    /\ op = "Timestamp::from_sec"
    /\ ~overflow_checks
    /\ arg = Wrap64(WideAdd(C13_Threshold, U64FromNat(1)))
    /\ ~res.panicked
    /\ Timestamp_as_nanos(res.val) = MulNanosWrap(arg)

====
